---- MODULE Spec2Model ----
(***************************************************************************)
(* A model of prtyprnt's Logger: the logger family (parent chain), the     *)
(* shared write stream, level filtering in print, event bubbling, clone,   *)
(* the asynchronous createFileWriteStream / closeFileWriteStream, and the  *)
(* log file they open, truncate or rotate (Utils).                         *)
(*                                                                         *)
(* Loggers and streams are objects; an object is its index in the          *)
(* sequence `loggers` or `streams`.  JavaScript's undefined and null are   *)
(* the integers UNDEF and NULL; a key missing from an options object is    *)
(* ABSENT (it matters only in clone's spread of its overrides).            *)
(***************************************************************************)
EXTENDS Integers, Sequences, FiniteSets

\* ------------------------------------------------------------------ bounds
MaxLoggers == 3     \* loggers built where streams are assigned (SpecAssign)
MaxFamily == 2      \* loggers built where calls are in flight or levels vary
MaxStreams == 2     \* streams made
MaxPending == 2     \* asynchronous calls in flight at once
MaxMessages == 1    \* distinct message lists logged
MaxAssignments == 1 \* assignments to logLevel or writeLevel after construction
MaxDates == 2       \* distinct readings of the clock
MaxQueue == 1       \* chunks written to a stream and not yet in its file
MaxContent == 3     \* chunks in the file when a line is logged (SpecFiles)

\* ------------------------------------------------------- program constants
UNDEF == -1
NULL == 0
ABSENT == -2

Debug == 1
Info == 2
Warn == 3
Error == 4
LogLevel == {Debug, Info, Warn, Error}

ModeAppend == "Append"
ModeTruncate == "Truncate"
ModeRename == "Rename"
FileWriteStreamMode == {ModeAppend, ModeTruncate, ModeRename}

\* A formatter supplied by the caller; a positive formatter is the
\* `new Formatter()` made by the constructor of the logger with that index.
CustomFormatter == 100

\* -------------------------------------------------------- JavaScript values
\* a ?? b
Coalesce(a, b) == IF a = UNDEF \/ a = NULL THEN b ELSE a

\* ToBoolean of a number, null or undefined
Truthy(x) == x # UNDEF /\ x # NULL /\ x # 0

\* ------------------------------------------------------------------ state
VARIABLES
    loggers,    \* the Logger objects constructed so far
    streams,    \* the WriteStream objects made so far (see OpenStream)
    fs,         \* the log path and the rotated files beside it (see NoFile)
    pending,    \* asynchronous calls that are suspended at an await
    assignments,\* how many times a threshold was assigned after construction
    last        \* what the most recent call did (an observation, not program state)

vars == <<loggers, streams, fs, pending, assignments, last>>

LoggerIds == 1..Len(loggers)
StreamIds == 1..Len(streams)

\* --------------------------------------------------- write stream accessors
RECURSIVE GetWriteStream(_, _)
GetWriteStream(L, l) ==
    IF L[l]._writeStream # UNDEF THEN L[l]._writeStream
    ELSE IF L[l].parent = UNDEF THEN UNDEF
    ELSE GetWriteStream(L, L[l].parent)

\* A slip: the parent's field is stored, its setter is not called.
SetWriteStreamOneLevel(L, l, value) ==
    LET L1 == [L EXCEPT ![l]._writeStream = value] IN
    IF L1[l].parent # UNDEF /\ ~Truthy(GetWriteStream(L1, L1[l].parent))
    THEN [L1 EXCEPT ![L1[l].parent]._writeStream = value]
    ELSE L1

RECURSIVE SetWriteStream(_, _, _)
SetWriteStream(L, l, value) ==
    LET L1 == [L EXCEPT ![l]._writeStream = value] IN
    IF L1[l].parent # UNDEF /\ ~Truthy(GetWriteStream(L1, L1[l].parent))
    THEN SetWriteStream(L1, L1[l].parent, value)
    ELSE L1

\* A slip: the logger's own field is read, not the getter.
IsWriteStreamClosedOwnField(L, S, l) ==
    LET ws == L[l]._writeStream IN
    \/ ~Truthy(ws)
    \/ S[ws].closed
    \/ S[ws].destroyed

IsWriteStreamClosed(L, S, l) ==
    LET ws == GetWriteStream(L, l) IN
    \/ ~Truthy(ws)
    \/ S[ws].closed
    \/ S[ws].destroyed

\* -------------------------------------------------------------- constructor
\* An options object: a key the caller leaves out reads as undefined.
NoOptions ==
    [formatter |-> UNDEF, parent |-> UNDEF, label |-> UNDEF, writeStream |-> UNDEF,
     objectInspectOptions |-> UNDEF, logLevel |-> UNDEF, writeLevel |-> UNDEF]

\* options?.logLevel ?? LogLevel.Info
ResolveLogLevel(options) == Coalesce(options.logLevel, Info)

\* options?.writeLevel ?? options?.writeLevel !== null ? (options?.logLevel ?? LogLevel.Info) : null
\* `??` binds weaker than `!==` and tighter than `?:`, so the condition of the
\* conditional is  writeLevel ?? (writeLevel !== null).
\* A slip: the chain read as "always fall back to logLevel".
ResolveWriteLevelFallback(options) == Coalesce(options.logLevel, Info)

ResolveWriteLevel(options) ==
    LET condition ==
            IF options.writeLevel = UNDEF \/ options.writeLevel = NULL
            THEN options.writeLevel # NULL
            ELSE Truthy(options.writeLevel)
    IN  IF condition THEN Coalesce(options.logLevel, Info) ELSE NULL

\* new Logger(options): the new logger is the last element of the result.
Constructor(L, options) ==
    LET id == Len(L) + 1
        this == [formatter |-> Coalesce(options.formatter, id),
                 parent |-> options.parent,
                 label |-> options.label,
                 _writeStream |-> UNDEF,
                 objectInspectOptions |-> options.objectInspectOptions,
                 logLevel |-> ResolveLogLevel(options),
                 writeLevel |-> ResolveWriteLevel(options)]
    IN  SetWriteStream(Append(L, this), id, options.writeStream)

\* -------------------------------------------------------------------- clone
ToJSON(L, l) ==
    [formatter |-> L[l].formatter,
     parent |-> L[l].parent,
     label |-> L[l].label,
     writeStream |-> GetWriteStream(L, l),
     objectInspectOptions |-> L[l].objectInspectOptions,
     logLevel |-> L[l].logLevel,
     writeLevel |-> L[l].writeLevel]

\* { ...base, ...over }: every key present in `over` wins, undefined included.
Spread(base, over) ==
    [k \in DOMAIN base |-> IF over[k] = ABSENT THEN base[k] ELSE over[k]]

NoOverrides == [k \in DOMAIN NoOptions |-> ABSENT]

\* A slip: the two branches of inheritParent exchanged.
CloneOptionsExchanged(L, l, options, inheritParent) ==
    Spread([ToJSON(L, l) EXCEPT !.parent = IF inheritParent THEN l ELSE L[l].parent],
           options)

CloneOptions(L, l, options, inheritParent) ==
    Spread([ToJSON(L, l) EXCEPT !.parent = IF inheritParent THEN L[l].parent ELSE l],
           options)

Clone(L, l, options, inheritParent) ==
    Constructor(L, CloneOptions(L, l, options, inheritParent))

\* ---------------------------------------------------------------- formatter
FormatConsoleLog(formatter, options) ==
    <<"pretty", formatter, options.level, options.messages, options.logger>>

FormatWriteStreamLog(formatter, options) ==
    <<"simple", formatter, options.level, options.messages, options.logger>>

\* -------------------------------------------------------------------- print
\* emit: the listeners of this logger, then the parent's emit.
\* A slip: the parent is told before this logger's own listeners.
RECURSIVE EmitParentFirst(_, _, _, _)
EmitParentFirst(L, l, eventName, args) ==
    (IF L[l].parent # UNDEF THEN EmitParentFirst(L, L[l].parent, eventName, args)
     ELSE <<>>)
    \o <<[logger |-> l, eventName |-> eventName, args |-> args]>>

RECURSIVE Emit(_, _, _, _)
Emit(L, l, eventName, args) ==
    <<[logger |-> l, eventName |-> eventName, args |-> args]>>
    \o (IF L[l].parent # UNDEF THEN Emit(L, L[l].parent, eventName, args) ELSE <<>>)

ConsoleSink(level) ==
    CASE level = Debug -> "debug"
      [] level = Info -> "info"
      [] level = Warn -> "warn"
      [] level = Error -> "error"

\* if (this.logLevel && level >= this.logLevel)
ConsoleEnabledStrict(logLevel, level) == Truthy(logLevel) /\ level > logLevel

ConsoleEnabled(logLevel, level) == Truthy(logLevel) /\ level >= logLevel

\* if (!this.isWriteStreamClosed && this.writeLevel && level >= this.writeLevel)
WriteEnabledUnchecked(L, S, l, level) ==
    /\ Truthy(GetWriteStream(L, l))
    /\ Truthy(L[l].writeLevel)
    /\ level >= L[l].writeLevel

WriteEnabled(L, S, l, level) ==
    /\ ~IsWriteStreamClosed(L, S, l)
    /\ Truthy(L[l].writeLevel)
    /\ level >= L[l].writeLevel

\* What one print(level, ...data) does: the listener dispatches, the console
\* writes and the stream writes, each in the order made.
\* A slip: every logger the event reaches writes to the console by its own
\* threshold.
printBubbling(L, S, l, level, data) ==
    LET options == [level |-> level, messages |-> data, logger |-> l]
        pretty == FormatConsoleLog(L[l].formatter, options)
        simple == FormatWriteStreamLog(L[l].formatter, options)
        payload == [level |-> level, messages |-> data, logger |-> l,
                    pretty |-> pretty, simple |-> simple]
        told == Emit(L, l, level, payload)
        writing(e) == ConsoleEnabled(L[e.logger].logLevel, level)
    IN  [events |-> told,
         console |->
            [i \in 1..Len(SelectSeq(told, writing)) |->
                [sink |-> ConsoleSink(level), text |-> pretty]],
         file |->
            IF WriteEnabled(L, S, l, level)
            THEN <<[stream |-> GetWriteStream(L, l), chunk |-> <<simple, "\n">>]>>
            ELSE <<>>]

print(L, S, l, level, data) ==
    LET options == [level |-> level, messages |-> data, logger |-> l]
        pretty == FormatConsoleLog(L[l].formatter, options)
        simple == FormatWriteStreamLog(L[l].formatter, options)
        payload == [level |-> level, messages |-> data, logger |-> l,
                    pretty |-> pretty, simple |-> simple]
    IN  [events |-> Emit(L, l, level, payload),
         console |->
            IF ConsoleEnabled(L[l].logLevel, level)
            THEN <<[sink |-> ConsoleSink(level), text |-> pretty]>>
            ELSE <<>>,
         file |->
            IF WriteEnabled(L, S, l, level)
            THEN <<[stream |-> GetWriteStream(L, l), chunk |-> <<simple, "\n">>]>>
            ELSE <<>>]

\* -------------------------------------------------------------------- Utils
\* A string is a sequence of tokens ('' is <<>>); a Date is its time value in
\* milliseconds, and the time value of an invalid Date (NaN) is InvalidDate.
InvalidDate == 0
Dates == 1..MaxDates

\* date.toISOString(), for a valid date
ToISOString(date) == <<"ISO-8601", date>>

\* new Date(timestamp)
NewDate(timestamp) ==
    IF Len(timestamp) = 2 /\ timestamp[1] = "ISO-8601" THEN timestamp[2]
    ELSE InvalidDate

logDateHeader(date) == <<"[">> \o ToISOString(date) \o <<"]">>

\* toISOString throws a RangeError on an invalid date.
formatDateFileName(date) ==
    IF date = InvalidDate
    THEN [threw |-> "RangeError: Invalid time value", name |-> <<>>]
    ELSE [threw |-> "", name |-> ToISOString(date) \o <<"-h-m-s-ms">>]

getFileCreationDate(statData, lines) ==
    LET createdAt == IF statData.birthtimeMs # 0 THEN statData.birthtimeMs
                     ELSE statData.ctimeMs
        header == lines[1]
    IN  IF header # <<>> /\ header[1] = "[" /\ header[Len(header)] = "]"
        THEN NewDate(SubSeq(header, 2, Len(header) - 1))
        ELSE createdAt

\* --------------------------------------------------------------- file system
\* The log path: what it is ("absent", "file", or "dir" for anything that is
\* no regular file), the chunks a file holds (each a string and its newline),
\* its times, the number of files the path has named so far (the last of them
\* is the file it names now), and the rotated files beside it.
NoFile ==
    [kind |-> "absent", content |-> <<>>, birthtimeMs |-> 0, ctimeMs |-> 0,
     ino |-> 0, archive |-> {}]

\* stat(file).catch(() => null): `exists` is false for null.
Stat(F) ==
    [exists |-> F.kind # "absent", isFile |-> F.kind = "file",
     birthtimeMs |-> F.birthtimeMs, ctimeMs |-> F.ctimeMs]

\* (await readFile(file, 'utf-8')).split('\n')
Lines(F) == [i \in 1..Len(F.content) |-> F.content[i][1]] \o <<<<>>>>

\* writeFile(file, data), and the open of a stream with flag 'w'
\* A slip: the data is added to what the file holds.
WriteFileAppending(F, content, now) ==
    [F EXCEPT !.kind = "file", !.content = @ \o content,
              !.birthtimeMs = IF F.kind = "file" THEN @ ELSE now,
              !.ctimeMs = now,
              !.ino = IF F.kind = "file" THEN @ ELSE @ + 1]

WriteFile(F, content, now) ==
    [F EXCEPT !.kind = "file", !.content = content,
              !.birthtimeMs = IF F.kind = "file" THEN @ ELSE now,
              !.ctimeMs = now,
              !.ino = IF F.kind = "file" THEN @ ELSE @ + 1]

\* rename(file, newFile), after writeFile(file, <the gzip data as text>)
Rename(F, newFile, data) ==
    [NoFile EXCEPT !.ino = F.ino,
                   !.archive = {a \in F.archive : a.name # newFile}
                               \cup {[name |-> newFile, data |-> data]}]

\* Utils.gzipCompressLog(file, statData)
gzipCompressLog(F, statData) ==
    LET lines == Lines(F)
        createdAt == getFileCreationDate(statData, lines)
        newFile == formatDateFileName(createdAt)
    IN  IF newFile.threw # ""
        THEN [threw |-> newFile.threw, fsOps |-> <<"readFile">>, fs |-> F]
        ELSE [threw |-> "",
              fsOps |-> <<"readFile", "gzip", "writeFile", "rename">>,
              fs |-> Rename(F, newFile.name \o <<".gz">>,
                           [encoding |-> "gzip", content |-> F.content])]

\* ------------------------------------------------------------ static factory
\* Logger.WriteStreamOptions.  initialData is <<>> when the caller leaves it
\* out, <<string>> for a string and <<"function", string>> for a function that
\* returns the string.  renameFile is left out, or a function of the caller's
\* that leaves the file where it is, or one that moves it away.
NoRenameFile == "undefined"
RenameFileKeeps == "leaves the file"
RenameFileMoves == "moves the file"

IsFunction(initialData) == Len(initialData) = 2

\* (typeof options.initialData !== 'function' ? options.initialData ?? ''
\*     : await Promise.resolve(options.initialData(file))) + '\n'
InitialData(options) ==
    <<IF IsFunction(options.initialData) THEN options.initialData[2]
      ELSE IF options.initialData = <<>> THEN <<>>
      ELSE options.initialData[1],
      "\n">>

\* if (options.initialData && !content)
\* A slip: the header is written whatever the file holds.
WritesInitialDataAlways(options, content) ==
    IsFunction(options.initialData)
    \/ (options.initialData # <<>> /\ options.initialData[1] # <<>>)

WritesInitialData(options, content) ==
    /\ \/ IsFunction(options.initialData)
       \/ (options.initialData # <<>> /\ options.initialData[1] # <<>>)
    /\ content = <<>>

\* A WriteStream as createWriteStream returns it, once it is open: its flag,
\* the file it has open, the chunks written to it that are not in the file
\* yet, and how many chunks it has put in the file (its position, for 'w').
OpenStream(flags, ino) ==
    [closed |-> FALSE, destroyed |-> FALSE, flags |-> flags, ino |-> ino,
     queue |-> <<>>, position |-> 0]

\* Logger.createFileWriteStream(options) up to its first await:
\* options.initialData ??= Utils.logDateHeader(new Date()), then stat(file).
StaticCreateBegin(options, now) ==
    [options |-> [options EXCEPT !.initialData =
                     IF @ = <<>> THEN <<logDateHeader(now)>> ELSE @],
     fsOps |-> <<"stat">>]

\* if (fileStat && !fileStat.isFile())
\* A slip: the kind of the path is not looked at.
NotAFileUnchecked(fileStat) == FALSE

NotAFile(fileStat) == fileStat.exists /\ ~fileStat.isFile

\* flags: options.mode === FileWriteStreamMode.Append ? 'a' : 'w'
\* A slip: every mode opens with 'w'.
FlagsAlwaysTruncate(mode) == "w"

Flags(mode) == IF mode = ModeAppend THEN "a" ELSE "w"

\* The rest of Logger.createFileWriteStream(options), given the stat taken and
\* the file system as it is: the error thrown ("" when none), the file-system
\* calls made in order, the file system afterwards and the stream returned.
StaticCreateFinish(F, fileStat, options, now) ==
    LET initialData == InitialData(options)
        same == [threw |-> "", fsOps |-> <<>>, fs |-> F]
        rotated ==
            CASE options.renameFile = NoRenameFile -> gzipCompressLog(F, fileStat)
              [] options.renameFile = RenameFileKeeps ->
                    [threw |-> "", fsOps |-> <<"renameFile">>, fs |-> F]
              [] options.renameFile = RenameFileMoves ->
                    [threw |-> "", fsOps |-> <<"renameFile">>,
                     fs |-> Rename(F, <<"moved">>,
                                  [encoding |-> "utf-8", content |-> F.content])]
        prepared ==
            CASE options.mode = ModeAppend -> same
              [] options.mode = ModeTruncate ->
                    IF ~fileStat.exists THEN same
                    ELSE [threw |-> "", fsOps |-> <<"writeFile">>,
                          fs |-> WriteFile(F, <<initialData>>, now)]
              [] options.mode = ModeRename ->
                    IF ~fileStat.exists THEN same
                    ELSE IF rotated.threw # "" THEN rotated
                    ELSE IF rotated.fs.kind = "absent"
                    THEN [threw |-> "", fsOps |-> rotated.fsOps \o <<"stat", "writeFile">>,
                          fs |-> WriteFile(rotated.fs, <<initialData>>, now)]
                    ELSE [threw |-> "", fsOps |-> rotated.fsOps \o <<"stat">>,
                          fs |-> rotated.fs]
        flags == Flags(options.mode)
        opened == IF flags = "w" THEN WriteFile(prepared.fs, <<>>, now)
                  ELSE IF prepared.fs.kind = "absent" THEN WriteFile(prepared.fs, <<>>, now)
                  ELSE prepared.fs
        writes == WritesInitialData(options, opened.content)
    IN  IF NotAFile(fileStat)
        THEN [threw |-> "Write stream path is not a file", fsOps |-> <<>>, fs |-> F,
              stream |-> OpenStream(flags, F.ino)]
        ELSE IF prepared.threw # ""
        THEN [threw |-> prepared.threw, fsOps |-> <<"mkdir">> \o prepared.fsOps,
              fs |-> prepared.fs, stream |-> OpenStream(flags, F.ino)]
        ELSE [threw |-> "",
              fsOps |-> <<"mkdir">> \o prepared.fsOps \o <<"createWriteStream", "readFile">>
                        \o (IF writes THEN <<"write">> ELSE <<>>),
              fs |-> opened,
              stream |-> [OpenStream(flags, opened.ino) EXCEPT
                             !.queue = IF writes THEN <<initialData>> ELSE <<>>]]

\* writeStream.write(chunk, 'utf-8')
Write(S, s, chunk) == [S EXCEPT ![s].queue = Append(@, chunk)]

\* The first chunk waiting in a stream reaches the file: at the end of the
\* file with flag 'a', at the stream's own position with flag 'w' (past the
\* end of a file that was cut short in between, the gap reads as zeros).
Flushed(F, stream) ==
    LET chunk == stream.queue[1]
        gap == [i \in 1..(stream.position - Len(F.content)) |-> <<<<"\\0">>, "">>]
    IN  IF stream.flags = "a" \/ stream.position = Len(F.content)
        THEN [F EXCEPT !.content = Append(@, chunk)]
        ELSE IF stream.position > Len(F.content)
        THEN [F EXCEPT !.content = (@ \o gap) \o <<chunk>>]
        ELSE [F EXCEPT !.content = [@ EXCEPT ![stream.position + 1] = chunk]]

\* ------------------------------------------------------------- observations
\* `last` tells what the most recent call was (op, the logger l it was made on,
\* its level, value, options and inheritParent arguments) and what it did: how
\* its promise settled, the error thrown, the logger returned, the loggers whose
\* own stream changed, the listener dispatches, console writes, stream writes
\* and file-system calls it made, in order.  An asynchronous method shows twice:
\* as the call up to its await, and as ".../resumed" when it continues.  For
\* the creation of a stream, `create` is the WriteStreamOptions and `stat` what
\* stat(file) told.
NoCreate == [mode |-> "", renameFile |-> NoRenameFile, initialData |-> <<>>]

NoLast ==
    [op |-> "none", l |-> UNDEF, level |-> UNDEF, value |-> UNDEF,
     inheritParent |-> FALSE, options |-> NoOptions, settled |-> "", threw |-> "",
     ret |-> UNDEF, changed |-> {}, events |-> <<>>, console |-> <<>>, file |-> <<>>,
     fsOps |-> <<>>, create |-> NoCreate, stat |-> Stat(NoFile)]

Remove(seq, i) == SubSeq(seq, 1, i - 1) \o SubSeq(seq, i + 1, Len(seq))

\* ------------------------------------------------------------------ actions
\* new Logger(options); of the options, the observation keeps the two levels
\* (the logger built shows the rest).
New(options) ==
    /\ loggers' = Constructor(loggers, options)
    /\ last' = [NoLast EXCEPT !.op = "new", !.ret = Len(loggers) + 1,
                              !.value = options.writeStream,
                              !.options = [NoOptions EXCEPT !.logLevel = options.logLevel,
                                                            !.writeLevel = options.writeLevel]]
    /\ UNCHANGED <<streams, fs, pending, assignments>>

\* logger.writeStream = value
AssignWriteStream(l, value) ==
    /\ loggers' = SetWriteStream(loggers, l, value)
    /\ last' = [NoLast EXCEPT !.op = "writeStream", !.l = l, !.value = value,
                              !.changed = {x \in LoggerIds :
                                  loggers'[x]._writeStream # loggers[x]._writeStream}]
    /\ UNCHANGED <<streams, fs, pending, assignments>>

\* logger.logLevel = value
AssignLogLevel(l, value) ==
    /\ assignments < MaxAssignments
    /\ assignments' = assignments + 1
    /\ loggers' = [loggers EXCEPT ![l].logLevel = value]
    /\ last' = [NoLast EXCEPT !.op = "logLevel", !.l = l, !.value = value]
    /\ UNCHANGED <<streams, fs, pending>>

\* logger.writeLevel = value
AssignWriteLevel(l, value) ==
    /\ assignments < MaxAssignments
    /\ assignments' = assignments + 1
    /\ loggers' = [loggers EXCEPT ![l].writeLevel = value]
    /\ last' = [NoLast EXCEPT !.op = "writeLevel", !.l = l, !.value = value]
    /\ UNCHANGED <<streams, fs, pending>>

\* logger.debug / info / warning / error (...data), and their aliases
Log(l, level, data) ==
    LET out == print(loggers, streams, l, level, data) IN
    /\ \A i \in 1..Len(out.file) : Len(streams[out.file[i].stream].queue) < MaxQueue
    /\ streams' = IF out.file = <<>> THEN streams
                  ELSE Write(streams, out.file[1].stream, out.file[1].chunk)
    /\ last' = [NoLast EXCEPT !.op = "print", !.l = l, !.level = level, !.value = data,
                              !.events = out.events, !.console = out.console,
                              !.file = out.file]
    /\ UNCHANGED <<loggers, fs, pending, assignments>>

\* logger.clone(options, inheritParent)
CloneLogger(l, options, inheritParent) ==
    /\ loggers' = Clone(loggers, l, options, inheritParent)
    /\ last' = [NoLast EXCEPT !.op = "clone", !.l = l, !.options = options,
                              !.inheritParent = inheritParent, !.ret = Len(loggers) + 1]
    /\ UNCHANGED <<streams, fs, pending, assignments>>

\* The streams still to be made by the calls in flight count against MaxStreams.
CreatesPending == Cardinality({i \in 1..Len(pending) : pending[i].op = "create"})
StreamBudget == Len(streams) + CreatesPending < MaxStreams

\* logger.createFileWriteStream(options), up to its await
CreateBegin(l, options, now) ==
    LET begun == StaticCreateBegin(options, now) IN
    IF ~IsWriteStreamClosed(loggers, streams, l)
    THEN /\ last' = [NoLast EXCEPT !.op = "createFileWriteStream", !.l = l,
                                   !.create = options,
                                   !.settled = "rejected",
                                   !.threw = "Write stream already created"]
         /\ UNCHANGED <<loggers, streams, fs, pending, assignments>>
    ELSE /\ Len(pending) < MaxPending
         /\ StreamBudget
         /\ pending' = Append(pending, [op |-> "create", l |-> l,
                                        options |-> begun.options, stat |-> Stat(fs),
                                        now |-> now, stream |-> UNDEF])
         /\ last' = [NoLast EXCEPT !.op = "createFileWriteStream", !.l = l,
                                   !.create = begun.options, !.stat = Stat(fs),
                                   !.settled = "pending", !.fsOps = begun.fsOps]
         /\ UNCHANGED <<loggers, streams, fs, assignments>>

\* ... and from the await on: this.writeStream = <the factory's stream>
CreateFinish(i) ==
    LET call == pending[i]
        made == StaticCreateFinish(fs, call.stat, call.options, call.now)
    IN  /\ call.op = "create"
        /\ pending' = Remove(pending, i)
        /\ fs' = made.fs
        /\ UNCHANGED assignments
        /\ IF made.threw # ""
           THEN /\ last' = [NoLast EXCEPT !.op = "createFileWriteStream/resumed", !.l = call.l,
                                          !.create = call.options, !.stat = call.stat,
                                          !.settled = "rejected", !.threw = made.threw,
                                          !.fsOps = made.fsOps]
                /\ UNCHANGED <<loggers, streams>>
           ELSE /\ streams' = Append(streams, made.stream)
                /\ loggers' = SetWriteStream(loggers, call.l, Len(streams) + 1)
                /\ last' = [NoLast EXCEPT !.op = "createFileWriteStream/resumed", !.l = call.l,
                                          !.create = call.options, !.stat = call.stat,
                                          !.settled = "resolved", !.ret = call.l,
                                          !.value = Len(streams) + 1,
                                          !.fsOps = made.fsOps]

\* await Logger.createFileWriteStream(options), called by the application itself
StaticCreate(options, now) ==
    LET begun == StaticCreateBegin(options, now)
        made == StaticCreateFinish(fs, Stat(fs), begun.options, now)
    IN  /\ StreamBudget
        /\ fs' = made.fs
        /\ IF made.threw # ""
           THEN /\ last' = [NoLast EXCEPT !.op = "Logger.createFileWriteStream",
                                          !.create = begun.options, !.stat = Stat(fs),
                                          !.settled = "rejected", !.threw = made.threw,
                                          !.fsOps = begun.fsOps \o made.fsOps]
                /\ UNCHANGED streams
           ELSE /\ streams' = Append(streams, made.stream)
                /\ last' = [NoLast EXCEPT !.op = "Logger.createFileWriteStream",
                                          !.create = begun.options, !.stat = Stat(fs),
                                          !.settled = "resolved", !.value = Len(streams) + 1,
                                          !.fsOps = begun.fsOps \o made.fsOps]
        /\ UNCHANGED <<loggers, pending, assignments>>

\* logger.closeFileWriteStream(): the promise's executor.  resolve(this) when
\* isWriteStreamClosed is false; otherwise this.writeStream?.close(resolve),
\* which is no call at all when there is no stream.
CloseBegin(l) ==
    IF ~IsWriteStreamClosed(loggers, streams, l)
    THEN /\ last' = [NoLast EXCEPT !.op = "closeFileWriteStream", !.l = l,
                                   !.settled = "resolved", !.ret = l]
         /\ UNCHANGED <<loggers, streams, fs, pending, assignments>>
    ELSE /\ Len(pending) < MaxPending
         /\ pending' = Append(pending, [op |-> "close", l |-> l,
                                        options |-> NoCreate, stat |-> Stat(NoFile),
                                        now |-> InvalidDate,
                                        stream |-> GetWriteStream(loggers, l)])
         /\ last' = [NoLast EXCEPT !.op = "closeFileWriteStream", !.l = l,
                                   !.settled = "pending"]
         /\ UNCHANGED <<loggers, streams, fs, assignments>>

\* WriteStream.close(cb) on a stream that is closed, or that closes later,
\* calls cb; the awaited promise resolves and the method returns this.
CloseResolve(i) ==
    LET call == pending[i] IN
    /\ call.op = "close"
    /\ call.stream # UNDEF
    /\ streams[call.stream].closed
    /\ pending' = Remove(pending, i)
    /\ last' = [NoLast EXCEPT !.op = "closeFileWriteStream/resumed", !.l = call.l,
                              !.settled = "resolved", !.ret = call.l]
    /\ UNCHANGED <<loggers, streams, fs, assignments>>

\* The application (or an I/O error) destroys a stream: `destroyed` is set at
\* once, `closed` when the 'close' event is emitted; the chunks still waiting
\* then are dropped.
StreamDestroy(s) ==
    /\ ~streams[s].destroyed
    /\ streams' = [streams EXCEPT ![s].destroyed = TRUE]
    /\ last' = NoLast
    /\ UNCHANGED <<loggers, fs, pending, assignments>>

StreamEmitClose(s) ==
    /\ streams[s].destroyed
    /\ ~streams[s].closed
    /\ streams' = [streams EXCEPT ![s].closed = TRUE, ![s].queue = <<>>]
    /\ last' = NoLast
    /\ UNCHANGED <<loggers, fs, pending, assignments>>

\* The write of the first chunk waiting in a stream completes.  A stream whose
\* file was moved away writes to the moved file, not to the path.
StreamFlush(s) ==
    /\ streams[s].queue # <<>>
    /\ ~streams[s].closed
    /\ fs' = IF fs.kind = "file" /\ fs.ino = streams[s].ino
             THEN Flushed(fs, streams[s]) ELSE fs
    /\ streams' = [streams EXCEPT ![s].queue = Tail(@), ![s].position = @ + 1]
    /\ last' = [NoLast EXCEPT !.op = "flush", !.value = s]
    /\ UNCHANGED <<loggers, pending, assignments>>

\* ---------------------------------------------------------- specifications
\* What the path may hold before the program starts: nothing, a directory, or
\* a log file of an earlier run.
Directory == [NoFile EXCEPT !.kind = "dir", !.birthtimeMs = 1, !.ctimeMs = 1, !.ino = 1]

OldFile(content, birthtimeMs) ==
    [NoFile EXCEPT !.kind = "file", !.content = content, !.birthtimeMs = birthtimeMs,
                   !.ctimeMs = 1, !.ino = 1]

OldLine == <<<<"old line">>, "\n">>
OldLog == <<<<logDateHeader(1), "\n">>, OldLine>>

\* The options of createFileWriteStream with only path and mode given.
PlainCreate ==
    {[NoCreate EXCEPT !.mode = mode] : mode \in FileWriteStreamMode}

Init ==
    /\ loggers = <<>>
    /\ streams = <<>>
    /\ fs \in {NoFile, Directory, OldFile(OldLog, 1)}
    /\ pending = <<>>
    /\ assignments = 0
    /\ last = NoLast

\* The family and the life of its stream: loggers are built with the default
\* thresholds and one formatter of the application's, on any parent and with
\* any stream made so far; streams are made by createFileWriteStream and end
\* when the application destroys them.
FamilyOptions ==
    {[NoOptions EXCEPT !.formatter = CustomFormatter, !.parent = p, !.writeStream = s] :
        p \in {UNDEF} \cup LoggerIds, s \in {UNDEF} \cup StreamIds}

Next ==
    \/ \E options \in FamilyOptions : Len(loggers) < MaxFamily /\ New(options)
    \/ \E l \in LoggerIds, inheritParent \in BOOLEAN :
            Len(loggers) < MaxFamily /\ CloneLogger(l, NoOverrides, inheritParent)
    \/ \E l \in LoggerIds, options \in PlainCreate, now \in Dates :
            CreateBegin(l, options, now)
    \/ \E i \in 1..Len(pending) : CreateFinish(i)
    \/ \E l \in LoggerIds : CloseBegin(l)
    \/ \E i \in 1..Len(pending) : CloseResolve(i)
    \/ \E s \in StreamIds : StreamDestroy(s)
    \/ \E s \in StreamIds : StreamEmitClose(s)

Spec == Init /\ [][Next]_vars

\* Assignment of streams: the application makes streams with the static factory
\* and assigns them, or undefined, to any logger; clones take any overrides of
\* parent and stream.
AssignOverrides ==
    {NoOverrides}
    \cup {[NoOverrides EXCEPT !.parent = p] : p \in {UNDEF} \cup LoggerIds}
    \cup {[NoOverrides EXCEPT !.writeStream = s] : s \in {UNDEF} \cup StreamIds}

NextAssign ==
    \/ \E options \in FamilyOptions : Len(loggers) < MaxLoggers /\ New(options)
    \/ \E l \in LoggerIds, s \in {UNDEF} \cup StreamIds : AssignWriteStream(l, s)
    \/ \E l \in LoggerIds, options \in AssignOverrides, inheritParent \in BOOLEAN :
            Len(loggers) < MaxLoggers /\ CloneLogger(l, options, inheritParent)
    \/ \E options \in PlainCreate, now \in Dates : StaticCreate(options, now)

SpecAssign == Init /\ [][NextAssign]_vars

\* Levels: one open stream exists; loggers are built with any thresholds, left
\* out, null or a level, and the application may assign any threshold later.
Thresholds == {NULL} \cup LogLevel

LevelOptions ==
    {[NoOptions EXCEPT !.parent = p, !.writeStream = s, !.logLevel = ll, !.writeLevel = wl] :
        p \in {UNDEF} \cup LoggerIds, s \in {UNDEF} \cup StreamIds,
        ll \in {UNDEF} \cup Thresholds, wl \in {UNDEF} \cup Thresholds}

InitLevels ==
    /\ loggers = <<>>
    /\ streams = <<OpenStream("a", 1)>>
    /\ fs = OldFile(<<>>, 1)
    /\ pending = <<>>
    /\ assignments = 0
    /\ last = NoLast

NextLevels ==
    \/ \E options \in LevelOptions : Len(loggers) < MaxFamily /\ New(options)
    \/ \E l \in LoggerIds, value \in Thresholds : AssignLogLevel(l, value)
    \/ \E l \in LoggerIds, value \in Thresholds : AssignWriteLevel(l, value)
    \/ \E l \in LoggerIds, level \in LogLevel, data \in 1..MaxMessages :
            Log(l, level, data)
    \/ \E s \in StreamIds : StreamDestroy(s)
    \/ \E s \in StreamIds : StreamEmitClose(s)

SpecLevels == InitLevels /\ [][NextLevels]_vars

\* Cloning: loggers are built plain, or with a label, a formatter and inspect
\* options, with any thresholds; any threshold may be assigned later; a clone
\* overrides nothing, the label, or one threshold.
Plain == NoOptions
Decorated == [NoOptions EXCEPT !.formatter = CustomFormatter, !.label = 1,
                               !.objectInspectOptions = 1]

CloneSourceOptions ==
    {[base EXCEPT !.parent = p, !.writeStream = s, !.logLevel = ll, !.writeLevel = wl] :
        base \in {Plain, Decorated},
        p \in {UNDEF} \cup LoggerIds, s \in {UNDEF} \cup StreamIds,
        ll \in {UNDEF} \cup Thresholds, wl \in {UNDEF} \cup Thresholds}

CloneOverrides ==
    {NoOverrides, [NoOverrides EXCEPT !.label = 2]}
    \cup {[NoOverrides EXCEPT !.logLevel = ll] : ll \in {UNDEF} \cup Thresholds}
    \cup {[NoOverrides EXCEPT !.writeLevel = wl] : wl \in {UNDEF} \cup Thresholds}

NextClone ==
    \/ \E options \in CloneSourceOptions : Len(loggers) < MaxFamily /\ New(options)
    \/ \E l \in LoggerIds, value \in Thresholds : AssignLogLevel(l, value)
    \/ \E l \in LoggerIds, value \in Thresholds : AssignWriteLevel(l, value)
    \/ \E l \in LoggerIds, options \in CloneOverrides, inheritParent \in BOOLEAN :
            Len(loggers) < MaxFamily /\ CloneLogger(l, options, inheritParent)

SpecClone == InitLevels /\ [][NextClone]_vars

\* Files: one run of an application.  It makes its stream with the static
\* factory, in any mode, with and without a rename function and initial data,
\* over whatever the path holds from earlier runs; it builds its logger on the
\* stream and logs at level Info; the writes reach the file in their own time.
PriorContents ==
    {<<>>, OldLog, <<OldLine>>, <<<<<<"[", "hello", "]">>, "\n">>, OldLine>>}

FileOptions ==
    {[mode |-> mode, renameFile |-> renameFile, initialData |-> initialData] :
        mode \in FileWriteStreamMode,
        renameFile \in {NoRenameFile, RenameFileKeeps, RenameFileMoves},
        initialData \in {<<>>, << <<>> >>, << <<"# log">> >>,
                         <<"function", <<>> >>, <<"function", <<"# log">> >>}}
    \ {options \in [mode : {ModeAppend, ModeTruncate},
                    renameFile : {RenameFileKeeps, RenameFileMoves},
                    initialData : {<<>>, << <<>> >>, << <<"# log">> >>,
                                   <<"function", <<>> >>, <<"function", <<"# log">> >>}] :
            TRUE}

InitFiles ==
    /\ loggers = <<>>
    /\ streams = <<>>
    /\ fs \in {NoFile, Directory}
             \cup {OldFile(content, birthtimeMs) :
                      content \in PriorContents, birthtimeMs \in {0, 1}}
    /\ pending = <<>>
    /\ assignments = 0
    /\ last = NoLast

NextFiles ==
    \/ \E options \in FileOptions, now \in Dates :
            streams = <<>> /\ StaticCreate(options, now)
    \/ \E s \in StreamIds :
            /\ loggers = <<>>
            /\ New([NoOptions EXCEPT !.formatter = CustomFormatter, !.writeStream = s])
    \/ \E l \in LoggerIds, data \in 1..MaxMessages :
            Len(fs.content) < MaxContent /\ Log(l, Info, data)
    \/ \E s \in StreamIds : StreamFlush(s)
    \/ \E s \in StreamIds : StreamDestroy(s)
    \/ \E s \in StreamIds : StreamEmitClose(s)

SpecFiles == InitFiles /\ [][NextFiles]_vars

\* ================================================================== claims
\* What the claims speak of, said without the accessors above: the chain of a
\* logger (itself, its parent, ... up to the root) and the first stream on it.
RECURSIVE Chain(_, _)
Chain(L, l) == <<l>> \o (IF L[l].parent = UNDEF THEN <<>> ELSE Chain(L, L[l].parent))

Ancestors(L, l) == {Chain(L, l)[i] : i \in 2..Len(Chain(L, l))}

Resolved(L, l) ==
    LET chain == Chain(L, l)
        having == {i \in 1..Len(chain) : L[chain[i]]._writeStream # UNDEF}
    IN  IF having = {} THEN UNDEF
        ELSE L[chain[CHOOSE i \in having : \A j \in having : i <= j]]._writeStream

StreamOpen(L, S, l) ==
    /\ Resolved(L, l) # UNDEF
    /\ ~S[Resolved(L, l)].closed
    /\ ~S[Resolved(L, l)].destroyed

\* C1: once the promise of closeFileWriteStream() has resolved, the stream the
\* logger resolves to is closed: isWriteStreamClosed holds for the logger and
\* for every logger that resolves to the same stream.
CloseClosesTheStream ==
    (last.op \in {"closeFileWriteStream", "closeFileWriteStream/resumed"}
        /\ last.settled = "resolved")
    => \A x \in LoggerIds :
          Resolved(loggers, x) = Resolved(loggers, last.l) => ~StreamOpen(loggers, streams, x)

\* C2: a closeFileWriteStream() that is suspended can always go on: the close
\* callback it waits for is ready, or its stream is yet to emit 'close'.
CloseNeverHangs ==
    \A i \in 1..Len(pending) :
        pending[i].op = "close"
        => \/ ENABLED CloseResolve(i)
           \/ pending[i].stream # UNDEF /\ ENABLED StreamEmitClose(pending[i].stream)

\* C3: createFileWriteStream called on a logger whose resolved stream is open
\* rejects with the 'already created' error, makes no file-system call and
\* changes no logger, stream, file or call in flight.
CreateOnOpenStreamFails ==
    [][\A l \in LoggerIds :
          (StreamOpen(loggers, streams, l)
              /\ last'.op = "createFileWriteStream" /\ last'.l = l)
          => /\ last'.settled = "rejected"
             /\ last'.threw = "Write stream already created"
             /\ last'.fsOps = <<>>
             /\ UNCHANGED <<loggers, streams, fs, pending>>]_vars

\* C3 witness: the call was rejected on a logger with no stream of its own,
\* whose open stream is an ancestor's.
CreateOnOpenStreamFailsWitness ==
    /\ last.op = "createFileWriteStream"
    /\ last.threw = "Write stream already created"
    /\ loggers[last.l]._writeStream = UNDEF
    /\ StreamOpen(loggers, streams, last.l)

\* The payload a print(level, ...data) of logger l carries, and the console
\* sink of each level.
Payload(l, level, data) ==
    [level |-> level, messages |-> data, logger |-> l,
     pretty |-> <<"pretty", loggers[l].formatter, level, data, l>>,
     simple |-> <<"simple", loggers[l].formatter, level, data, l>>]

SinkOf == [level \in LogLevel |->
              <<"debug", "info", "warn", "error">>[level]]

\* C4: print at level L writes the pretty string to the console exactly when
\* the console threshold is not null and L >= threshold, once, to the sink of
\* L; otherwise it writes nothing to the console.
ConsoleFiltering ==
    last.op = "print"
    => LET threshold == loggers[last.l].logLevel
           pretty == Payload(last.l, last.level, last.value).pretty
       IN  IF threshold # NULL /\ last.level >= threshold
           THEN last.console = <<[sink |-> SinkOf[last.level], text |-> pretty]>>
           ELSE last.console = <<>>

\* C4 witness: a warning went to console.warn under a lower threshold.
ConsoleFilteringWitness ==
    /\ last.op = "print"
    /\ last.level = Warn
    /\ loggers[last.l].logLevel = Info
    /\ Len(last.console) = 1
    /\ last.console[1].sink = "warn"

\* C5: print at level L appends one line, simple and a newline, to the stream
\* the logger resolves to exactly when that stream is open, the write threshold
\* is not null and L >= threshold; otherwise it writes to no stream; it never
\* throws.
FileFiltering ==
    last.op = "print"
    => LET threshold == loggers[last.l].writeLevel
           simple == Payload(last.l, last.level, last.value).simple
       IN  /\ last.threw = ""
           /\ IF StreamOpen(loggers, streams, last.l)
                 /\ threshold # NULL /\ last.level >= threshold
              THEN last.file = <<[stream |-> Resolved(loggers, last.l),
                                  chunk |-> <<simple, "\n">>]>>
              ELSE last.file = <<>>

\* C5 witness: a line was written to a stream the logger has from its parent,
\* under a write threshold that differs from the console threshold.
FileFilteringWitness ==
    /\ last.op = "print"
    /\ Len(last.file) = 1
    /\ loggers[last.l]._writeStream = UNDEF
    /\ loggers[last.l].writeLevel # loggers[last.l].logLevel

\* C6: one print at level L dispatches the event L, with the payload of the
\* call, to the logger and then to each ancestor in turn up to the root, once
\* each, and to no other logger.
EventBubbling ==
    last.op = "print"
    => LET events == last.events IN
       /\ Len(events) >= 1
       /\ events[1].logger = last.l
       /\ \A i \in 1..Len(events) - 1 :
             events[i + 1].logger = loggers[events[i].logger].parent
       /\ loggers[events[Len(events)].logger].parent = UNDEF
       /\ \A i \in 1..Len(events) :
             /\ events[i].eventName = last.level
             /\ events[i].args = Payload(last.l, last.level, last.value)

\* C6 witness: a child whose console threshold is null logged, and its parent
\* was told after it.
EventBubblingWitness ==
    /\ last.op = "print"
    /\ loggers[last.l].logLevel = NULL
    /\ Len(last.events) = 2
    /\ last.events[2].logger = loggers[last.l].parent

\* C7: assigning a stream S to a logger's writeStream, by assignment or in the
\* constructor, stores S on the logger; if the parent resolved to no stream, S
\* is stored on every ancestor too, and otherwise no ancestor changes.  No
\* other logger changes; the logger and the ancestors S reached resolve to S,
\* and so does every logger without a stream of its own whose parent S reached.
WriteStreamSharing ==
    [][(last'.op \in {"writeStream", "new"} /\ last'.value # UNDEF)
        => LET l == IF last'.op = "new" THEN last'.ret ELSE last'.l
               S == last'.value
               p == loggers'[l].parent
               before(x) == IF x \in LoggerIds THEN loggers[x]._writeStream ELSE UNDEF
               spreads == p # UNDEF /\ Resolved(loggers, p) = UNDEF
               reached == {l} \cup (IF spreads THEN Ancestors(loggers', l) ELSE {})
           IN  /\ \A x \in 1..Len(loggers') :
                     loggers'[x]._writeStream = IF x \in reached THEN S ELSE before(x)
               /\ \A x \in reached : Resolved(loggers', x) = S
               /\ \A c \in 1..Len(loggers') :
                     (loggers'[c].parent \in reached /\ loggers'[c]._writeStream = UNDEF)
                     => Resolved(loggers', c) = S]_vars

\* C7 witness: an assignment changed the stream of the logger, of its parent
\* and of its parent's parent.
WriteStreamSharingWitness ==
    /\ last.op = "writeStream"
    /\ last.value # UNDEF
    /\ Len(Chain(loggers, last.l)) = 3
    /\ last.changed = {Chain(loggers, last.l)[i] : i \in 1..3}

\* C8 as claimed: the clone's parent is the original's parent when
\* inheritParent is true, and then never the original, and is the original
\* when inheritParent is false, whatever the overrides; no logger that existed
\* has its parent changed.
CloneParentWhateverOverrides ==
    [][last'.op = "clone"
        => /\ loggers'[last'.ret].parent =
                 (IF last'.inheritParent THEN loggers[last'.l].parent ELSE last'.l)
           /\ last'.inheritParent => loggers'[last'.ret].parent # last'.l
           /\ \A x \in LoggerIds : loggers'[x].parent = loggers[x].parent]_vars

\* C8 amended: the same when the overrides have no parent key; a parent key in
\* the overrides is the clone's parent, whatever inheritParent is.
CloneParent ==
    [][last'.op = "clone"
        => /\ last'.ret = Len(loggers) + 1
           /\ loggers'[last'.ret].parent =
                 (IF last'.options.parent # ABSENT THEN last'.options.parent
                  ELSE IF last'.inheritParent THEN loggers[last'.l].parent
                  ELSE last'.l)
           /\ \A x \in LoggerIds : loggers'[x].parent = loggers[x].parent]_vars

\* C8 witness: a logger that has a parent was cloned with the default
\* inheritParent and no parent override, and the clone has that parent.
CloneParentWitness ==
    /\ last.op = "clone"
    /\ last.inheritParent
    /\ last.options.parent = ABSENT
    /\ loggers[last.l].parent # UNDEF
    /\ loggers[last.ret].parent = loggers[last.l].parent

\* C9: a clone has the original's current formatter, label, inspect options,
\* console threshold and write threshold wherever the overrides do not name
\* the field, and resolves to the original's stream unless overridden.
CloneCopiesConfiguration ==
    last.op = "clone"
    => /\ \A k \in {"formatter", "label", "objectInspectOptions", "logLevel", "writeLevel"} :
             last.options[k] = ABSENT => loggers[last.ret][k] = loggers[last.l][k]
       /\ last.options.writeStream = ABSENT
          => Resolved(loggers, last.ret) = Resolved(loggers, last.l)

ExplicitWriteLevelHonoured ==
    (last.op = "new" /\ last.options.writeLevel \in LogLevel)
    => LET this == loggers[last.ret] IN
       /\ this.writeLevel = last.options.writeLevel
       /\ StreamOpen(loggers, streams, last.ret)
          => \A level \in LogLevel :
                (print(loggers, streams, last.ret, level, 1).file # <<>>)
                <=> level >= last.options.writeLevel

\* C12: a logger built with logLevel null has a null console threshold, and a
\* print at any level on it writes to no console sink while its events are
\* still dispatched.
NullLogLevelDisablesConsole ==
    (last.op = "new" /\ last.options.logLevel = NULL)
    => LET this == loggers[last.ret] IN
       /\ this.logLevel = NULL
       /\ \A level \in LogLevel :
             LET out == print(loggers, streams, last.ret, level, 1) IN
             /\ out.console = <<>>
             /\ out.events # <<>>

\* What the file holds once every chunk waiting in a stream has reached it.
RECURSIVE AllFlushed(_, _)
AllFlushed(F, stream) ==
    IF stream.queue = <<>> THEN F
    ELSE AllFlushed(Flushed(F, stream),
                    [stream EXCEPT !.queue = Tail(@), !.position = @ + 1])

\* The static factory returned a stream made with mode Truncate, or with mode
\* Rename and no rename function, over a regular file that held something.
FreshFileCase ==
    /\ last'.op = "Logger.createFileWriteStream"
    /\ last'.settled = "resolved"
    /\ fs.kind = "file"
    /\ fs.content # <<>>
    /\ \/ last'.create.mode = ModeTruncate
       \/ last'.create.mode = ModeRename /\ last'.create.renameFile = NoRenameFile

\* C13 as claimed: once the factory has returned in that case and the writes of
\* its stream are flushed, the file holds the initial header and its newline
\* once, and nothing else, whatever the initial header is.
FreshFileWhateverHeader ==
    [][FreshFileCase
        => AllFlushed(fs', streams'[last'.value]).content
               = <<InitialData(last'.create)>>]_vars

\* C13 amended: the same when initialData is left out, is a function or is a
\* string that is not empty; when it is the empty string the file is left
\* empty.
FreshFile ==
    [][FreshFileCase
        => AllFlushed(fs', streams'[last'.value]).content
               = (IF last'.create.initialData = << <<>> >> THEN <<>>
                  ELSE <<InitialData(last'.create)>>)]_vars

\* C13 witness: a file that held the log of an earlier run was rotated away,
\* and the one chunk the new stream has put in the new file is its header.
FreshFileWitness ==
    /\ last.op = "flush"
    /\ streams[last.value].flags = "w"
    /\ fs.archive # {}
    /\ \E a \in fs.archive : a.data.content = OldLog
    /\ Len(fs.content) = 1
    /\ fs.content[1][1] = logDateHeader(2)

IsPrefix(s, t) == Len(s) <= Len(t) /\ SubSeq(t, 1, Len(s)) = s

\* C14: the static factory run with mode Append over a regular file that holds
\* something leaves the content as it is, writes no header and returns a
\* stream with flag 'a' on that file; it writes the header only over a path
\* that held no file or an empty one; and whatever is written to a stream with
\* flag 'a' afterwards lands after all the file holds.
AppendPreserves ==
    [][/\ (last'.op = "Logger.createFileWriteStream" /\ last'.settled = "resolved"
              /\ last'.create.mode = ModeAppend)
          => LET stream == streams'[last'.value] IN
             /\ stream.flags = "a"
             /\ (fs.kind = "file" /\ fs.content # <<>>)
                => /\ fs'.content = fs.content
                   /\ fs'.ino = fs.ino
                   /\ stream.ino = fs.ino
                   /\ stream.queue = <<>>
             /\ stream.queue # <<>>
                => /\ fs.kind = "absent" \/ fs.content = <<>>
                   /\ stream.queue = <<InitialData(last'.create)>>
       /\ (streams # <<>> /\ \A s \in StreamIds : streams[s].flags = "a")
          => /\ IsPrefix(fs.content, fs'.content)
             /\ last'.op = "flush"
                => fs'.content = Append(fs.content, streams[last'.value].queue[1])]_vars

\* C14 witness: a line logged on a stream made with mode Append has reached the
\* file, after the log of the earlier run.
AppendPreservesWitness ==
    /\ last.op = "flush"
    /\ streams[last.value].flags = "a"
    /\ Len(fs.content) = Len(OldLog) + 1
    /\ SubSeq(fs.content, 1, Len(OldLog)) = OldLog
    /\ fs.content[Len(OldLog) + 1][1][1] = "simple"

\* C16: when the path is there and is no regular file, createFileWriteStream
\* fails with the 'not a file' error in every mode; it has made no call to the
\* file system but stat, so no directory is made, no file written, renamed or
\* compressed and no stream opened; and no logger's stream changes.
NonRegularTargetRejected ==
    [][(last'.op \in {"createFileWriteStream/resumed", "Logger.createFileWriteStream"}
            /\ last'.stat.exists /\ ~last'.stat.isFile)
        => /\ last'.settled = "rejected"
           /\ last'.threw = "Write stream path is not a file"
           /\ \A i \in 1..Len(last'.fsOps) : last'.fsOps[i] = "stat"
           /\ UNCHANGED <<fs, streams, loggers>>]_vars

\* C16 witness: the instance method, called with mode Rename on a logger of a
\* family of two, was rejected over a directory.
NonRegularTargetRejectedWitness ==
    /\ last.op = "createFileWriteStream/resumed"
    /\ last.create.mode = ModeRename
    /\ last.threw = "Write stream path is not a file"
    /\ fs.kind = "dir"
    /\ Len(loggers) = 2
    /\ \A l \in LoggerIds : loggers[l]._writeStream = UNDEF

\* The date the rotated file is to be named after: the one in the first line
\* when that line is "[" timestamp "]" with a timestamp that is a date, and
\* the birth time of the file (its change time where there is none) otherwise.
CreationDate(F) ==
    LET birth == IF F.birthtimeMs # 0 THEN F.birthtimeMs ELSE F.ctimeMs IN
    IF F.content # <<>> /\ \E date \in Dates : F.content[1][1] = logDateHeader(date)
    THEN CHOOSE date \in Dates : F.content[1][1] = logDateHeader(date)
    ELSE birth

\* C17: the static factory run with mode Rename and no rename function over a
\* regular file returns, and the rotated file is named after the timestamp of
\* the first line when it is a well-formed header and after the birth time
\* when it is not, a first line like "[hello]" included.
HeaderOverrideWellFormed ==
    [][(last'.op = "Logger.createFileWriteStream"
            /\ last'.create.mode = ModeRename /\ last'.create.renameFile = NoRenameFile
            /\ fs.kind = "file")
        => /\ last'.settled = "resolved"
           /\ \E a \in fs'.archive :
                 /\ a.name = <<"ISO-8601", CreationDate(fs), "-h-m-s-ms", ".gz">>
                 /\ a.data.content = fs.content]_vars

\* C15: a createFileWriteStream call made on a logger while an earlier call on
\* it is suspended in the factory fails with the 'already created' error; and
\* a call never installs its stream over a stream that is open.
NoClobbering ==
    [][/\ (last'.op = "createFileWriteStream"
              /\ \E i \in 1..Len(pending) :
                    pending[i].op = "create" /\ pending[i].l = last'.l)
          => /\ last'.settled = "rejected"
             /\ last'.threw = "Write stream already created"
       /\ (last'.op = "createFileWriteStream/resumed" /\ last'.settled = "resolved")
          => ~StreamOpen(loggers, streams, last'.l)]_vars

\* Every child resolves to the stream its parent resolves to.
OneStream(L) ==
    \A c \in 1..Len(L) :
        L[c].parent # UNDEF => Resolved(L, c) = Resolved(L, L[c].parent)

\* C18: a family on one stream stays on one stream through every constructor
\* call that gives no stream, every clone, createFileWriteStream and
\* closeFileWriteStream, and through the closing of its stream.
FamilyOnOneStream ==
    [][(OneStream(loggers) /\ ~(last'.op = "new" /\ last'.value # UNDEF))
        => OneStream(loggers')]_vars

\* C19: one print makes at most one console write and at most one stream
\* write; each is made only when the threshold of the logger that was called
\* lets the level through, carries that logger's text, and the stream write
\* goes to the stream that logger resolves to; no stream but that one takes a
\* chunk, and no logger changes.
NoExtraOutput ==
    [][last'.op = "print"
        => LET this == loggers[last'.l]
               payload == Payload(last'.l, last'.level, last'.value)
               console == last'.console
               file == last'.file
           IN  /\ Len(console) <= 1
               /\ Len(file) <= 1
               /\ console # <<>>
                  => /\ this.logLevel # NULL /\ last'.level >= this.logLevel
                     /\ console[1].text = payload.pretty
               /\ file # <<>>
                  => /\ this.writeLevel # NULL /\ last'.level >= this.writeLevel
                     /\ file[1].stream = Resolved(loggers, last'.l)
                     /\ file[1].chunk = <<payload.simple, "\n">>
               /\ \A s \in StreamIds :
                     streams'[s] =
                        IF file # <<>> /\ s = Resolved(loggers, last'.l)
                        THEN [streams[s] EXCEPT !.queue = Append(@, file[1].chunk)]
                        ELSE streams[s]
               /\ UNCHANGED <<loggers, fs>>]_vars

\* C19 witness: a child logged at a level its parent's console threshold lets
\* through and its own does not; nothing went to the console and one line
\* went to the stream.
NoExtraOutputWitness ==
    /\ last.op = "print"
    /\ Len(last.events) = 2
    /\ LET parent == loggers[loggers[last.l].parent] IN
       /\ parent.logLevel # NULL
       /\ last.level >= parent.logLevel
       /\ parent.logLevel # loggers[last.l].logLevel
    /\ last.console = <<>>
    /\ Len(last.file) = 1
    /\ streams[last.file[1].stream].queue = <<last.file[1].chunk>>

====
